---- MODULE Spec2Model ----
(***************************************************************************)
(* Record-level decoders of the wire pack format                           *)
(* (mercurial-bundles/src/wirepack/mod.rs): HistoryEntry::decode,          *)
(* HistoryEntry::verify and DataEntry::decode, over a caller-owned byte    *)
(* buffer that a transport fills in arbitrary chunks.                      *)
(*                                                                         *)
(* Bytes are naturals 0..255, buffers are sequences of bytes.  A u64 is    *)
(* kept as its 8 big-endian digits, so that the arithmetic on the 64-bit   *)
(* length keeps its width.  usize is 64 bits wide.                         *)
(***************************************************************************)
EXTENDS Naturals, Sequences, FiniteSets, TLC

VARIABLES
    stream,           \* which decoder the sequencer calls: "history" | "data" | "verify"
    kind,             \* the Kind the sequencer passes to HistoryEntry::decode
    overflow_checks,  \* build profile: TRUE = arithmetic overflow panics, FALSE = wraps
    frames,           \* what the sender put on the wire, frame by frame (ghost)
    pending,          \* bytes of the wire the transport has not delivered yet
    buf,              \* the caller's accumulating buffer (BytesMut)
    last,             \* the call just made: its input buffer, its outcome, the buffer after it
                      \* (and the same for a second buffer, when two were decoded)
    noneRun,          \* consecutive Ok(None) results on the same buffer (capped)
    waited,           \* the record at the front of the wire was already answered Ok(None)
    returned          \* how many calls have returned Ok(Some) so far

vars ==
    <<stream, kind, overflow_checks, frames, pending, buf, last, noneRun, waited,
      returned>>

----------------------------------------------------------------------------
(* Bounds of the model *)

\* longest tail (path or payload bytes) that follows a header on the wire
MaxTail == 2
\* cap of the counter of repeated Ok(None) calls on one buffer
MaxNoneRun == 2
\* most records of a stream of well-formed records
MaxRecords == 3
\* how many of a buffer's last bytes a second buffer may replace
TwinWindow == 1

----------------------------------------------------------------------------
(* Vocabulary *)

Kinds == {"Tree", "File"}

\* A NodeHash is 20 bytes; the hashes of the model repeat one byte.
HashOf(b) == [i \in 1..20 |-> b]
NULL_HASH == HashOf(0)

\* Layout constants
HISTORY_COPY_FROM_OFFSET == 20 + 20 + 20 + 20
HISTORY_HEADER_SIZE == HISTORY_COPY_FROM_OFFSET + 2
DATA_DELTA_OFFSET == 20 + 20
DATA_HEADER_SIZE == DATA_DELTA_OFFSET + 8

\* Option<RepoPath>
NoPath == [tag |-> "None", path |-> <<>>]
RootPath == [tag |-> "RootPath", path |-> <<>>]
DirectoryPath(p) == [tag |-> "DirectoryPath", path |-> p]
FilePath(p) == [tag |-> "FilePath", path |-> p]

----------------------------------------------------------------------------
(* Byte-level helpers *)

\* b[from+1 .. to], the Rust slice &b[from..to]
Slice(b, from, to) == SubSeq(b, from + 1, to)

\* BytesMut::split_to(at): the first `at` bytes, and the buffer that is left
SplitTo(b, at) == [val |-> SubSeq(b, 1, at), rest |-> SubSeq(b, at + 1, Len(b))]

\* BigEndian::read_u16
ReadU16LittleEndian(s) == s[2] * 256 + s[1]
ReadU16(s) == s[1] * 256 + s[2]

\* BytesExt::drain_node / drain_u16 / drain_u64
DrainNode(b) == SplitTo(b, 20)
DrainU16(b) == [val |-> ReadU16(SubSeq(b, 1, 2)), rest |-> SubSeq(b, 3, Len(b))]
DrainU64(b) == SplitTo(b, 8)

\* BigEndian::read_u64 followed by `as usize`: the 8 digits, most significant first
ReadU64LittleEndian(s) == [i \in 1..Len(s) |-> s[Len(s) + 1 - i]]
ReadU64(s) == s

\* a buffer length as a usize
ToU64(n) == [i \in 1..8 |-> IF i <= 4 THEN 0 ELSE (n \div 256 ^ (8 - i)) % 256]

\* a usize known to be below 2^24, as a number
U64ToNat(d) == d[6] * 65536 + d[7] * 256 + d[8]

\* a < b on usize values
RECURSIVE U64Less(_, _)
U64Less(a, b) ==
    IF a = <<>> THEN FALSE
    ELSE IF Head(a) # Head(b) THEN Head(a) < Head(b)
    ELSE U64Less(Tail(a), Tail(b))

\* n + d on usize: the 64-bit sum and the carry out of it
RECURSIVE UsizeAdd(_, _)
UsizeAdd(n, d) ==
    IF d = <<>> THEN [digits |-> <<>>, carry |-> n]
    ELSE LET s == d[Len(d)] + n
             hi == UsizeAdd(s \div 256, SubSeq(d, 1, Len(d) - 1))
         IN  [digits |-> Append(hi.digits, s % 256), carry |-> hi.carry]

\* MPath::new: the bytes are a path unless they hold a NUL byte
MPathNew(s) == [ok |-> \A i \in 1..Len(s) : s[i] # 0, val |-> s]

\* BytesExt::drain_path(len): split the bytes off, then parse them
DrainPath(b, len) ==
    LET sp == SplitTo(b, len)
        mp == MPathNew(sp.val)
    IN  [ok |-> mp.ok, val |-> mp.val, rest |-> sp.rest]

\* RepoPath::file: a file path may not be empty
RepoPathFile(p) == [ok |-> p # <<>>, val |-> FilePath(p)]

----------------------------------------------------------------------------
(* Entries and outcomes *)

NoEntry == [type |-> "none"]

HistoryEntry(node, p1, p2, linknode, copy_from) ==
    [type |-> "history", node |-> node, p1 |-> p1, p2 |-> p2,
     linknode |-> linknode, copy_from |-> copy_from]

DataEntry(node, delta_base, delta) ==
    [type |-> "data", node |-> node, delta_base |-> delta_base, delta |-> delta]

\* What a call leaves behind: Ok(None) | Ok(Some(entry)) | Err | a panic,
\* the buffer after it, and whether the delta codec was run.
Outcome(o, e, rest, err) ==
    [outcome |-> o, entry |-> e, rest |-> rest, err |-> err, codec |-> FALSE]

----------------------------------------------------------------------------
(* HistoryEntry::decode *)

\* the four hashes and the length field leave the buffer
HistoryDrainHeaderKeepsLen(b) ==
    LET node == DrainNode(b)
        p1 == DrainNode(node.rest)
        p2 == DrainNode(p1.rest)
        linknode == DrainNode(p2.rest)
    IN  [node |-> node.val, p1 |-> p1.val, p2 |-> p2.val,
         linknode |-> linknode.val, rest |-> linknode.rest]

HistoryDrainHeaderSwapsParents(b) ==
    LET node == DrainNode(b)
        p1 == DrainNode(node.rest)
        p2 == DrainNode(p1.rest)
        linknode == DrainNode(p2.rest)
        len16 == DrainU16(linknode.rest)
    IN  [node |-> node.val, p1 |-> p2.val, p2 |-> p1.val,
         linknode |-> linknode.val, rest |-> len16.rest]

HistoryDrainHeader(b) ==
    LET node == DrainNode(b)
        p1 == DrainNode(node.rest)
        p2 == DrainNode(p1.rest)
        linknode == DrainNode(p2.rest)
        len16 == DrainU16(linknode.rest)
    IN  [node |-> node.val, p1 |-> p1.val, p2 |-> p2.val,
         linknode |-> linknode.val, rest |-> len16.rest]

\* the copy-from path of a record, or the error it ends in
HistoryCopyFromPeek(b, copy_from_len, k) ==
    IF copy_from_len > 0
    THEN LET path == MPathNew(SubSeq(b, 1, copy_from_len))
         IN  IF ~path.ok
             THEN [ok |-> FALSE, val |-> NoPath, rest |-> b, err |-> "InvalidPath"]
             ELSE IF k = "Tree" \/ path.val = <<>>
             THEN [ok |-> FALSE, val |-> NoPath, rest |-> b, err |-> "WirePackDecode"]
             ELSE [ok |-> TRUE, val |-> FilePath(path.val), rest |-> b, err |-> ""]
    ELSE [ok |-> TRUE, val |-> NoPath, rest |-> b, err |-> ""]

HistoryCopyFromAnyKind(b, copy_from_len, k) ==
    IF copy_from_len > 0
    THEN LET path == DrainPath(b, copy_from_len)
         IN  IF ~path.ok
             THEN [ok |-> FALSE, val |-> NoPath, rest |-> path.rest, err |-> "InvalidPath"]
             ELSE IF path.val = <<>>
             THEN [ok |-> FALSE, val |-> NoPath, rest |-> path.rest, err |-> "WirePackDecode"]
             ELSE [ok |-> TRUE, val |-> FilePath(path.val), rest |-> path.rest, err |-> ""]
    ELSE [ok |-> TRUE, val |-> NoPath, rest |-> b, err |-> ""]

HistoryCopyFromTakesRest(b, copy_from_len, k) ==
    IF copy_from_len > 0
    THEN LET path == DrainPath(b, copy_from_len)
         IN  IF ~path.ok
             THEN [ok |-> FALSE, val |-> NoPath, rest |-> <<>>, err |-> "InvalidPath"]
             ELSE IF k = "Tree"
             THEN [ok |-> FALSE, val |-> NoPath, rest |-> <<>>, err |-> "WirePackDecode"]
             ELSE [ok |-> TRUE, val |-> FilePath(path.val), rest |-> <<>>, err |-> ""]
    ELSE [ok |-> TRUE, val |-> NoPath, rest |-> b, err |-> ""]

HistoryCopyFromLenient(b, copy_from_len, k) ==
    IF copy_from_len > 0
    THEN LET path == DrainPath(b, copy_from_len)
         IN  IF ~path.ok
             THEN [ok |-> TRUE, val |-> NoPath, rest |-> path.rest, err |-> ""]
             ELSE IF k = "Tree"
             THEN [ok |-> FALSE, val |-> NoPath, rest |-> path.rest, err |-> "WirePackDecode"]
             ELSE [ok |-> TRUE, val |-> FilePath(path.val), rest |-> path.rest, err |-> ""]
    ELSE [ok |-> TRUE, val |-> NoPath, rest |-> b, err |-> ""]

HistoryCopyFromAsDirectory(b, copy_from_len, k) ==
    IF copy_from_len > 0
    THEN LET path == DrainPath(b, copy_from_len)
         IN  IF ~path.ok
             THEN [ok |-> FALSE, val |-> NoPath, rest |-> path.rest, err |-> "InvalidPath"]
             ELSE IF k = "Tree"
             THEN [ok |-> FALSE, val |-> NoPath, rest |-> path.rest, err |-> "WirePackDecode"]
             ELSE [ok |-> TRUE, val |-> DirectoryPath(path.val), rest |-> path.rest,
                   err |-> ""]
    ELSE [ok |-> TRUE, val |-> NoPath, rest |-> b, err |-> ""]

HistoryCopyFrom(b, copy_from_len, k) ==
    IF copy_from_len > 0
    THEN LET path == DrainPath(b, copy_from_len)
         IN  IF ~path.ok
             THEN [ok |-> FALSE, val |-> NoPath, rest |-> path.rest, err |-> "InvalidPath"]
             ELSE IF k = "Tree"
             THEN [ok |-> FALSE, val |-> NoPath, rest |-> path.rest, err |-> "WirePackDecode"]
             ELSE LET file == RepoPathFile(path.val)
                  IN  IF file.ok
                      THEN [ok |-> TRUE, val |-> file.val, rest |-> path.rest, err |-> ""]
                      ELSE [ok |-> FALSE, val |-> NoPath, rest |-> path.rest,
                            err |-> "WirePackDecode"]
    ELSE [ok |-> TRUE, val |-> NoPath, rest |-> b, err |-> ""]

HistoryDecode(b, k) ==
    IF Len(b) < HISTORY_HEADER_SIZE
    THEN Outcome("None", NoEntry, b, "")
    ELSE
    LET copy_from_len == ReadU16(Slice(b, HISTORY_COPY_FROM_OFFSET, HISTORY_HEADER_SIZE))
    IN  IF Len(b) < HISTORY_HEADER_SIZE + copy_from_len
        THEN Outcome("None", NoEntry, b, "")
        ELSE
        LET h == HistoryDrainHeader(b)
            copy_from == HistoryCopyFrom(h.rest, copy_from_len, k)
        IN  IF ~copy_from.ok
            THEN Outcome("Err", NoEntry, copy_from.rest, copy_from.err)
            ELSE Outcome("Some",
                     HistoryEntry(h.node, h.p1, h.p2, h.linknode, copy_from.val),
                     copy_from.rest, "")

----------------------------------------------------------------------------
(* HistoryEntry::verify *)

U16_MAX == 65535

HistoryVerifyAnyKind(e, k) ==
    IF e.copy_from.tag = "None" THEN "Ok"
    ELSE IF e.copy_from.tag = "RootPath" THEN "Err"
    ELSE IF e.copy_from.tag = "DirectoryPath" THEN "Err"
    ELSE IF ~(Len(e.copy_from.path) <= U16_MAX) THEN "Err"
    ELSE "Ok"

HistoryVerifyStrictLength(e, k) ==
    IF e.copy_from.tag = "None" THEN "Ok"
    ELSE IF e.copy_from.tag = "RootPath" THEN "Err"
    ELSE IF e.copy_from.tag = "DirectoryPath" THEN "Err"
    ELSE IF k # "File" THEN "Err"
    ELSE IF ~(Len(e.copy_from.path) < U16_MAX) THEN "Err"
    ELSE "Ok"

HistoryVerify(e, k) ==
    IF e.copy_from.tag = "None" THEN "Ok"
    ELSE IF e.copy_from.tag = "RootPath" THEN "Err"
    ELSE IF e.copy_from.tag = "DirectoryPath" THEN "Err"
    ELSE IF k # "File" THEN "Err"
    ELSE IF ~(Len(e.copy_from.path) <= U16_MAX) THEN "Err"
    ELSE "Ok"

----------------------------------------------------------------------------
(* DataEntry::decode *)

\* Delta::new_fulltext
NewFulltext(s) == [kind |-> "fulltext", content |-> s]

\* delta::decode_delta: the codec accepts the bytes unless they hold a NUL byte
DecodeDelta(s) ==
    [ok |-> \A i \in 1..Len(s) : s[i] # 0,
     val |-> [kind |-> "delta", content |-> s]]

\* the two hashes and the length field leave the buffer
DataDrainHeaderKeepsLen(b) ==
    LET node == DrainNode(b)
        delta_base == DrainNode(node.rest)
    IN  [node |-> node.val, delta_base |-> delta_base.val, rest |-> delta_base.rest]

DataDrainHeader(b) ==
    LET node == DrainNode(b)
        delta_base == DrainNode(node.rest)
        len64 == DrainU64(delta_base.rest)
    IN  [node |-> node.val, delta_base |-> delta_base.val, rest |-> len64.rest]

\* the payload as a full text, or through the delta codec
DataDeltaAlwaysCodec(delta_base, payload) ==
    LET decoded == DecodeDelta(payload)
    IN  [ok |-> decoded.ok, val |-> decoded.val, codec |-> TRUE]

DataDeltaNeverFails(delta_base, payload) ==
    IF delta_base = NULL_HASH
    THEN [ok |-> TRUE, val |-> NewFulltext(payload), codec |-> FALSE]
    ELSE LET decoded == DecodeDelta(payload)
         IN  [ok |-> TRUE,
              val |-> IF decoded.ok THEN decoded.val ELSE NewFulltext(payload),
              codec |-> TRUE]

DataDelta(delta_base, payload) ==
    IF delta_base = NULL_HASH
    THEN [ok |-> TRUE, val |-> NewFulltext(payload), codec |-> FALSE]
    ELSE LET decoded == DecodeDelta(payload)
         IN  [ok |-> decoded.ok, val |-> decoded.val, codec |-> TRUE]

DataDecode(b, checks) ==
    IF Len(b) < DATA_HEADER_SIZE
    THEN Outcome("None", NoEntry, b, "")
    ELSE
    LET delta_len == ReadU64(Slice(b, DATA_DELTA_OFFSET, DATA_HEADER_SIZE))
        needed == UsizeAdd(DATA_HEADER_SIZE, delta_len)
    IN  IF needed.carry # 0 /\ checks
        THEN Outcome("Panic", NoEntry, b, "attempt to add with overflow")
        ELSE IF U64Less(ToU64(Len(b)), needed.digits)
        THEN Outcome("None", NoEntry, b, "")
        ELSE
        LET h == DataDrainHeader(b)
        IN  IF U64Less(ToU64(Len(h.rest)), delta_len)
            THEN Outcome("Panic", NoEntry, h.rest, "split_to out of bounds")
            ELSE
            LET payload == SplitTo(h.rest, U64ToNat(delta_len))
                delta == DataDelta(h.delta_base, payload.val)
            IN  IF ~delta.ok
                THEN [Outcome("Err", NoEntry, payload.rest, "DeltaDecode")
                          EXCEPT !.codec = delta.codec]
                ELSE [Outcome("Some",
                          DataEntry(h.node, h.delta_base, delta.val),
                          payload.rest, "") EXCEPT !.codec = delta.codec]

----------------------------------------------------------------------------
(* The wire *)

\* bytes a tail is made of: an ordinary byte, and the NUL byte that neither
\* a path nor the delta codec accepts
TailBytes == {97, 0}

RECURSIVE SeqsUpTo(_, _)
SeqsUpTo(S, n) ==
    IF n = 0 THEN {<<>>}
    ELSE LET shorter == SeqsUpTo(S, n - 1)
         IN  shorter \cup {Append(s, x) : s \in {t \in shorter : Len(t) = n - 1}, x \in S}

Tails == SeqsUpTo(TailBytes, MaxTail)

\* the 16-bit length fields a sender announces: 0, 1, 2, 256, 65535
HistoryLens == {<<0, 0>>, <<0, 1>>, <<0, 2>>, <<1, 0>>, <<255, 255>>}

\* the 64-bit length fields a sender announces:
\* 0, 1, 2, 256, 2^64 - 49, 2^64 - 48, 2^64 - 1
DataLens ==
    {<<0, 0, 0, 0, 0, 0, 0, 0>>, <<0, 0, 0, 0, 0, 0, 0, 1>>,
     <<0, 0, 0, 0, 0, 0, 0, 2>>, <<0, 0, 0, 0, 0, 0, 1, 0>>,
     <<255, 255, 255, 255, 255, 255, 255, 207>>,
     <<255, 255, 255, 255, 255, 255, 255, 208>>,
     <<255, 255, 255, 255, 255, 255, 255, 255>>}

\* A frame is a header and the bytes the sender lets follow it; the length
\* it announces need not be the length of what follows.
HistoryFrames ==
    [type : {"history"}, node : {HashOf(1)}, p1 : {HashOf(2)}, p2 : {HashOf(3)},
     linknode : {HashOf(4)}, len : HistoryLens, tail : Tails]

DataFrames ==
    [type : {"data"}, node : {HashOf(1)}, delta_base : {NULL_HASH, HashOf(2)},
     len : DataLens, tail : Tails]

\* the length field that announces n bytes
LenField(type, n) == IF type = "history" THEN <<n \div 256, n % 256>> ELSE ToU64(n)

\* a frame announces what follows it
WellFormed(f) == f.len = LenField(f.type, Len(f.tail))

\* the frames that may follow the first one on the wire: well formed, a
\* tail of at most one byte
IsFollowFrame(f) == WellFormed(f) /\ Len(f.tail) <= 1

FrameBytes(f) ==
    IF f.type = "history"
    THEN f.node \o f.p1 \o f.p2 \o f.linknode \o f.len \o f.tail
    ELSE f.node \o f.delta_base \o f.len \o f.tail

RECURSIVE Wire(_)
Wire(fs) == IF fs = <<>> THEN <<>> ELSE FrameBytes(Head(fs)) \o Wire(Tail(fs))

\* one frame, or one frame and a follower
WiresOf(F) == {<<f>> : f \in F} \cup {<<f, g>> : f \in F, g \in {h \in F : IsFollowFrame(h)}}

\* the frames of a stream of several records: well formed, a tail of at
\* most one ordinary byte
IsStreamFrame(f) == IsFollowFrame(f) /\ \A i \in 1..Len(f.tail) : f.tail[i] # 0

\* up to MaxRecords such frames
StreamWires(F) ==
    UNION {[1..n -> {h \in F : IsStreamFrame(h)}] : n \in 1..MaxRecords}

\* a well-formed first frame and a frame behind it
TwinWires(F) ==
    {<<f, g>> : f \in {h \in F : WellFormed(h)}, g \in {h \in F : IsStreamFrame(h)}}

\* what a second buffer holds in place of the last bytes of the first
TwinSuffixes == SeqsUpTo(TailBytes, 1)

\* the buffers that share all but the last TwinWindow bytes with b
TwinsOf(b) ==
    {SubSeq(b, 1, m) \o t :
        m \in (IF Len(b) > TwinWindow THEN Len(b) - TwinWindow ELSE 0)..Len(b),
        t \in TwinSuffixes}

\* the entries a caller hands to verify without decoding them
\* short ones, and the two around the 16-bit limit
FixturePaths ==
    (SeqsUpTo({97, 98}, MaxTail + 1) \ {<<>>})
        \cup {[i \in 1..n |-> 97] : n \in {U16_MAX, U16_MAX + 1}}

FixtureEntries ==
    {HistoryEntry(n, NULL_HASH, NULL_HASH, NULL_HASH, c) :
        n \in {NULL_HASH, HashOf(1)},
        c \in {NoPath, RootPath} \cup {DirectoryPath(p) : p \in FixturePaths}
                                 \cup {FilePath(p) : p \in FixturePaths}}

----------------------------------------------------------------------------
(* The state machine *)

\* the call on a second buffer
NoTwin == [pre |-> <<>>, outcome |-> "None", entry |-> NoEntry, post |-> <<>>]
TwinOf(b, r) == [pre |-> b, outcome |-> r.outcome, entry |-> r.entry, post |-> r.rest]

NoCall == [op |-> "none", pre |-> <<>>, kind |-> "File", outcome |-> "None",
           entry |-> NoEntry, post |-> <<>>, err |-> "", codec |-> FALSE,
           noneRun |-> 0, waited |-> FALSE, returned |-> 0, twin |-> NoTwin]

CallOf(op, b, k, e, r) ==
    [op |-> op, pre |-> b, kind |-> k, outcome |-> r.outcome,
     entry |-> IF op = "verify" THEN e ELSE r.entry,
     post |-> r.rest, err |-> r.err, codec |-> r.codec,
     noneRun |-> noneRun, waited |-> waited, returned |-> returned, twin |-> NoTwin]

InitCommon ==
    /\ pending = Wire(frames)
    /\ buf = <<>>
    /\ last = NoCall
    /\ noneRun = 0
    /\ waited = FALSE
    /\ returned = 0

\* a history stream; HistoryEntry::decode has no arithmetic that can overflow
InitHistory ==
    /\ stream = "history"
    /\ kind \in Kinds
    /\ overflow_checks = FALSE
    /\ frames \in WiresOf(HistoryFrames)
    /\ InitCommon

\* a data stream, in a build with or without overflow checks
InitData ==
    /\ stream = "data"
    /\ kind = "File"
    /\ overflow_checks \in BOOLEAN
    /\ frames \in WiresOf(DataFrames)
    /\ InitCommon

\* a caller that only validates entries
InitVerify ==
    /\ stream = "verify"
    /\ kind = "File"
    /\ overflow_checks = FALSE
    /\ frames = <<>>
    /\ InitCommon

Init == InitHistory \/ InitData \/ InitVerify

\* a stream of several well-formed records, of either type; the lengths
\* they announce are far from the values whose sum overflows
InitStream ==
    /\ \/ /\ stream = "history"
          /\ kind \in Kinds
          /\ frames \in StreamWires(HistoryFrames)
       \/ /\ stream = "data"
          /\ kind = "File"
          /\ frames \in StreamWires(DataFrames)
    /\ overflow_checks = FALSE
    /\ InitCommon

\* The transport delivers the next byte of the wire (a chunk is a run of
\* these steps with no call in between).
Receive ==
    /\ last.outcome # "Panic"
    /\ pending # <<>>
    /\ buf' = Append(buf, Head(pending))
    /\ pending' = Tail(pending)
    /\ last' = NoCall
    /\ noneRun' = 0
    /\ UNCHANGED <<stream, kind, overflow_checks, frames, waited, returned>>

Bookkeeping(r) ==
    /\ noneRun' = IF r.outcome # "None" THEN 0
                  ELSE IF noneRun < MaxNoneRun THEN noneRun + 1 ELSE noneRun
    /\ waited' = (r.outcome = "None")
    /\ returned' = IF r.outcome = "Some" THEN returned + 1 ELSE returned

\* The sequencer calls HistoryEntry::decode(&mut buf, kind).
CallHistoryDecode ==
    /\ stream = "history"
    /\ last.outcome # "Panic"
    /\ LET r == HistoryDecode(buf, kind)
       IN  /\ last' = CallOf("history", buf, kind, NoEntry, r)
           /\ buf' = r.rest
           /\ Bookkeeping(r)
    /\ UNCHANGED <<stream, kind, overflow_checks, frames, pending>>

\* The sequencer calls DataEntry::decode(&mut buf).
CallDataDecode ==
    /\ stream = "data"
    /\ last.outcome # "Panic"
    /\ LET r == DataDecode(buf, overflow_checks)
       IN  /\ last' = CallOf("data", buf, kind, NoEntry, r)
           /\ buf' = r.rest
           /\ Bookkeeping(r)
    /\ UNCHANGED <<stream, kind, overflow_checks, frames, pending>>

\* A caller runs entry.verify(kind) on an entry it built itself.
CallVerify ==
    /\ stream = "verify"
    /\ \E e \in FixtureEntries, k \in Kinds :
        last' = CallOf("verify", buf, k, e, Outcome(HistoryVerify(e, k), NoEntry, buf, ""))
    /\ UNCHANGED <<stream, kind, overflow_checks, frames, pending, buf, noneRun, waited,
                   returned>>

\* The caller runs entry.verify(kind) on the entry decode just returned.
CallVerifyDecoded ==
    /\ stream = "history"
    /\ last.op = "history"
    /\ last.outcome = "Some"
    /\ last' = [CallOf("verify", buf, kind, last.entry,
                       Outcome(HistoryVerify(last.entry, kind), NoEntry, buf, ""))
                    EXCEPT !.op = "verify_decoded"]
    /\ UNCHANGED <<stream, kind, overflow_checks, frames, pending, buf, noneRun, waited,
                   returned>>

Next ==
    \/ Receive
    \/ CallHistoryDecode
    \/ CallDataDecode
    \/ CallVerify
    \/ CallVerifyDecoded

Spec == Init /\ [][Next]_vars

NextHistory == Receive \/ CallHistoryDecode \/ CallVerifyDecoded
SpecHistory == InitHistory /\ [][NextHistory]_vars

NextData == Receive \/ CallDataDecode
SpecData == InitData /\ [][NextData]_vars

\* two streams that share their first record
InitTwin ==
    /\ \/ /\ stream = "history"
          /\ kind \in Kinds
          /\ frames \in TwinWires(HistoryFrames)
       \/ /\ stream = "data"
          /\ kind = "File"
          /\ frames \in TwinWires(DataFrames)
    /\ overflow_checks = FALSE
    /\ InitCommon

\* Two sequencers call HistoryEntry::decode, each on its own buffer; the
\* buffers share a prefix.
TwinHistoryDecode ==
    /\ stream = "history"
    /\ last.outcome # "Panic"
    /\ \E other \in TwinsOf(buf) :
        LET r == HistoryDecode(buf, kind)
            r2 == HistoryDecode(other, kind)
        IN  /\ last' = [CallOf("history_twins", buf, kind, NoEntry, r)
                            EXCEPT !.twin = TwinOf(other, r2)]
            /\ buf' = r.rest
            /\ Bookkeeping(r)
    /\ UNCHANGED <<stream, kind, overflow_checks, frames, pending>>

\* The same for DataEntry::decode.
TwinDataDecode ==
    /\ stream = "data"
    /\ last.outcome # "Panic"
    /\ \E other \in TwinsOf(buf) :
        LET r == DataDecode(buf, overflow_checks)
            r2 == DataDecode(other, overflow_checks)
        IN  /\ last' = [CallOf("data_twins", buf, kind, NoEntry, r)
                            EXCEPT !.twin = TwinOf(other, r2)]
            /\ buf' = r.rest
            /\ Bookkeeping(r)
    /\ UNCHANGED <<stream, kind, overflow_checks, frames, pending>>

NextTwin == Receive \/ TwinHistoryDecode \/ TwinDataDecode
SpecTwin == InitTwin /\ [][NextTwin]_vars

NextVerify == CallVerify
SpecVerify == InitVerify /\ [][NextVerify]_vars

NextStream == Receive \/ CallHistoryDecode \/ CallDataDecode
SpecStream == InitStream /\ [][NextStream]_vars

----------------------------------------------------------------------------
(* Reading a call's input buffer, for the statements below *)

\* the bytes of b after its first n
After(b, n) == SubSeq(b, n + 1, Len(b))

\* the big-endian u16 at offsets 80..82 of a history buffer
CopyFromLenAt(b) == b[81] * 256 + b[82]

\* the big-endian u64 at offsets 40..48 of a data buffer is below 2^24,
\* and its value then
DeltaLenIsSmall(b) == \A i \in 41..45 : b[i] = 0
DeltaLenAt(b) == b[46] * 65536 + b[47] * 256 + b[48]

\* a data buffer holds its whole first record
DataFullyBuffered(b) ==
    /\ Len(b) >= 48
    /\ DeltaLenIsSmall(b)
    /\ Len(b) >= 48 + DeltaLenAt(b)

DataPayloadAt(b) == SubSeq(b, 49, 48 + DeltaLenAt(b))

NoNul(s) == \A i \in 1..Len(s) : s[i] # 0

Unchanged == last.post = last.pre /\ buf = last.pre

----------------------------------------------------------------------------
(* C1 *)

\* C1 as stated: HistoryEntry::decode answers Ok(None) and leaves the
\* buffer alone whenever it holds fewer than 86 bytes, or at least 86 but
\* fewer than 86 + copy_from_len.
C1_AsStated ==
    (/\ last.op = "history"
     /\ \/ Len(last.pre) < 86
        \/ Len(last.pre) < 86 + CopyFromLenAt(last.pre))
    => (last.outcome = "None" /\ Unchanged)

\* C1 (amended): HistoryEntry::decode, for either Kind, answers Ok(None) and
\* leaves the buffer byte for byte unchanged whenever the buffer holds fewer
\* than 82 bytes, or at least 82 bytes but fewer than 82 + copy_from_len,
\* copy_from_len being the big-endian u16 at offsets 80..82.
C1_NeedsMoreInput ==
    (/\ last.op = "history"
     /\ \/ Len(last.pre) < 82
        \/ Len(last.pre) < 82 + CopyFromLenAt(last.pre))
    => (last.outcome = "None" /\ Unchanged)

\* a whole header that announces 256 bytes, with one of them received
C1_Witness ==
    /\ last.op = "history"
    /\ Len(last.pre) = 83
    /\ CopyFromLenAt(last.pre) = 256
    /\ last.outcome = "None"

----------------------------------------------------------------------------
(* C2 *)

\* C2: DataEntry::decode answers Ok(None) and leaves the buffer byte for
\* byte unchanged whenever the buffer holds fewer than 48 bytes, or at least
\* 48 bytes but fewer than 48 + delta_len, delta_len being the big-endian
\* u64 at offsets 40..48.
C2_NeedsMoreInput ==
    (/\ last.op = "data"
     /\ \/ Len(last.pre) < 48
        \/ ~DeltaLenIsSmall(last.pre)
        \/ Len(last.pre) < 48 + DeltaLenAt(last.pre))
    => (last.outcome = "None" /\ Unchanged)

----------------------------------------------------------------------------
(* C3 *)

\* C3 as stated: when HistoryEntry::decode returns Err the buffer is
\* unchanged, nothing was drained.
C3_AsStated ==
    (last.op = "history" /\ last.outcome = "Err") => Unchanged

\* C3 (amended): when HistoryEntry::decode returns Err, the whole record
\* has been drained: the buffer holds exactly the bytes that followed the
\* 82 + copy_from_len bytes of the record.
C3_ErrDrainsRecord ==
    (last.op = "history" /\ last.outcome = "Err")
    => /\ Len(last.pre) >= 82 + CopyFromLenAt(last.pre)
       /\ last.post = After(last.pre, 82 + CopyFromLenAt(last.pre))
       /\ buf = last.post

\* a Tree record that names a copy source, with bytes behind it
C3_Witness ==
    /\ last.op = "history"
    /\ last.kind = "Tree"
    /\ last.outcome = "Err"
    /\ last.err = "WirePackDecode"
    /\ last.post # <<>>

----------------------------------------------------------------------------
(* C4 *)

\* C4 as stated: on Ok(Some) exactly 86 + copy_from_len bytes left the
\* front of the buffer.
C4_AsStated ==
    (last.op = "history" /\ last.outcome = "Some")
    => /\ Len(last.pre) = Len(last.post) + 86 + CopyFromLenAt(last.pre)
       /\ last.post = After(last.pre, 86 + CopyFromLenAt(last.pre))

\* C4 (amended): when HistoryEntry::decode returns Ok(Some(entry)), exactly
\* 82 + copy_from_len bytes have been removed from the front of the buffer
\* and what remains is exactly the bytes that followed the record, in order.
C4_ExactConsumption ==
    (last.op = "history" /\ last.outcome = "Some")
    => /\ Len(last.pre) = Len(last.post) + 82 + CopyFromLenAt(last.pre)
       /\ last.post = After(last.pre, 82 + CopyFromLenAt(last.pre))
       /\ buf = last.post

\* a record with a one-byte copy source, with bytes behind it
C4_Witness ==
    /\ last.op = "history"
    /\ last.outcome = "Some"
    /\ CopyFromLenAt(last.pre) = 1
    /\ last.post # <<>>

----------------------------------------------------------------------------
(* C5 *)

\* C5: when DataEntry::decode returns Ok(Some(entry)), exactly
\* 48 + delta_len bytes have been removed from the front of the buffer and
\* what remains is exactly the bytes that followed the record, in order.
C5_ExactConsumption ==
    (last.op = "data" /\ last.outcome = "Some")
    => /\ DeltaLenIsSmall(last.pre)
       /\ Len(last.pre) = Len(last.post) + 48 + DeltaLenAt(last.pre)
       /\ last.post = After(last.pre, 48 + DeltaLenAt(last.pre))
       /\ buf = last.post

\* a record with an empty payload, with bytes behind it
C5_Witness ==
    /\ last.op = "data"
    /\ last.outcome = "Some"
    /\ DeltaLenAt(last.pre) = 0
    /\ last.post # <<>>

----------------------------------------------------------------------------
(* C6 *)

\* the first frame of the wire is a valid record for the decoder in use
ValidRecord(f) ==
    /\ WellFormed(f)
    /\ f.type = "history" => (f.tail = <<>> \/ (kind = "File" /\ NoNul(f.tail)))
    /\ f.type = "data" => (f.delta_base = HashOf(0) \/ NoNul(f.tail))

\* the entry the sender encoded in a valid record
SentEntry(f) ==
    IF f.type = "history"
    THEN [type |-> "history", node |-> f.node, p1 |-> f.p1, p2 |-> f.p2,
          linknode |-> f.linknode,
          copy_from |-> IF f.tail = <<>> THEN [tag |-> "None", path |-> <<>>]
                        ELSE [tag |-> "FilePath", path |-> f.tail]]
    ELSE [type |-> "data", node |-> f.node, delta_base |-> f.delta_base,
          delta |-> [kind |-> IF f.delta_base = HashOf(0) THEN "fulltext" ELSE "delta",
                     content |-> f.tail]]

\* nothing of the wire has been consumed before the call
AtFirstRecord == Len(last.pre) + Len(pending) = Len(Wire(frames))

\* C6: for a valid encoded record (history or data) received in any
\* chunking, every call on a proper prefix of it, however often repeated,
\* answers Ok(None) and leaves the buffer unchanged; once the rest has
\* arrived the call returns the entry the record encodes.
C6_PartialBufferIdempotence ==
    (/\ last.op \in {"history", "data"}
     /\ frames # <<>>
     /\ ValidRecord(frames[1])
     /\ AtFirstRecord)
    => IF Len(last.pre) < Len(FrameBytes(frames[1]))
       THEN last.outcome = "None" /\ Unchanged
       ELSE last.outcome = "Some" /\ last.entry = SentEntry(frames[1])

\* a record with a tail is returned after the call answered Ok(None) before
C6_Witness ==
    /\ last.op \in {"history", "data"}
    /\ ValidRecord(frames[1])
    /\ AtFirstRecord
    /\ frames[1].tail # <<>>
    /\ last.waited
    /\ last.outcome = "Some"

----------------------------------------------------------------------------
(* C7 *)

\* C7: for a fully buffered history record decoded with Kind::Tree, decode
\* returns Err for every nonzero copy_from_len and Ok(Some(entry)) with
\* entry.copy_from = None for copy_from_len = 0.
C7_TreeCannotCopy ==
    (/\ last.op = "history"
     /\ last.kind = "Tree"
     /\ Len(last.pre) >= 82
     /\ Len(last.pre) >= 82 + CopyFromLenAt(last.pre))
    => IF CopyFromLenAt(last.pre) > 0
       THEN last.outcome = "Err"
       ELSE last.outcome = "Some" /\ last.entry.copy_from.tag = "None"

\* a Tree record whose copy source is a well-formed path
C7_Witness ==
    /\ last.op = "history"
    /\ last.kind = "Tree"
    /\ Len(last.pre) >= 82
    /\ CopyFromLenAt(last.pre) = 2
    /\ Len(last.pre) >= 84
    /\ NoNul(SubSeq(last.pre, 83, 84))
    /\ last.outcome = "Err"

----------------------------------------------------------------------------
(* C8 *)

\* C8: verify returns Ok exactly for (Tree, None), (File, None) and
\* (File, file path within the 16-bit length limit), and Err for every
\* other pair of Kind and copy_from in {None, directory, file, root}.
C8_ValidatorMatrix ==
    last.op = "verify"
    => (last.outcome = "Ok"
        <=> \/ last.entry.copy_from.tag = "None"
            \/ /\ last.kind = "File"
               /\ last.entry.copy_from.tag = "FilePath"
               /\ Len(last.entry.copy_from.path) <= 65535)

\* a file path checked under Kind::Tree
C8_Witness ==
    /\ last.op = "verify"
    /\ last.kind = "Tree"
    /\ last.entry.copy_from.tag = "FilePath"
    /\ last.outcome = "Err"

----------------------------------------------------------------------------
(* C9 *)

\* C9: a fully buffered data record whose delta_base is the null hash and
\* whose payload is B decodes to an entry whose delta is the full text B,
\* for every B, and the delta codec is not run.
C9_NullHashFullText ==
    (/\ last.op = "data"
     /\ DataFullyBuffered(last.pre)
     /\ SubSeq(last.pre, 21, 40) = [i \in 1..20 |-> 0])
    => /\ last.outcome = "Some"
       /\ last.entry.delta = [kind |-> "fulltext", content |-> DataPayloadAt(last.pre)]
       /\ ~last.codec

\* a full text the codec would not accept
C9_Witness ==
    /\ last.op = "data"
    /\ DataFullyBuffered(last.pre)
    /\ SubSeq(last.pre, 21, 40) = [i \in 1..20 |-> 0]
    /\ ~NoNul(DataPayloadAt(last.pre))
    /\ last.outcome = "Some"

----------------------------------------------------------------------------
(* C10 *)

\* C10: a fully buffered data record whose delta_base is not the null hash
\* decodes to Ok(Some(entry)) with entry.delta what the delta codec returns
\* for exactly its delta_len payload bytes when the codec accepts them, and
\* to Err when the codec rejects them.
C10_CodecDelegation ==
    (/\ last.op = "data"
     /\ DataFullyBuffered(last.pre)
     /\ SubSeq(last.pre, 21, 40) # [i \in 1..20 |-> 0])
    => /\ last.codec
       /\ IF DecodeDelta(DataPayloadAt(last.pre)).ok
          THEN /\ last.outcome = "Some"
               /\ last.entry.delta = DecodeDelta(DataPayloadAt(last.pre)).val
          ELSE last.outcome = "Err"

\* a payload the codec rejects
C10_Witness ==
    /\ last.op = "data"
    /\ DataFullyBuffered(last.pre)
    /\ SubSeq(last.pre, 21, 40) # [i \in 1..20 |-> 0]
    /\ ~DecodeDelta(DataPayloadAt(last.pre)).ok
    /\ last.outcome = "Err"

----------------------------------------------------------------------------
(* C13 *)

\* C13: on a successful HistoryEntry::decode the entry's fields are the
\* positional slices of the record: node = bytes 0..20, p1 = 20..40,
\* p2 = 40..60, linknode = 60..80, copy_from_len = the big-endian u16 of
\* bytes 80..82, copy_from absent for copy_from_len = 0 and otherwise the
\* file path of bytes 82..82 + copy_from_len; for Kind::Tree and Kind::File
\* alike.
C13_PositionalFields ==
    (last.op = "history" /\ last.outcome = "Some")
    => /\ last.entry.node = SubSeq(last.pre, 1, 20)
       /\ last.entry.p1 = SubSeq(last.pre, 21, 40)
       /\ last.entry.p2 = SubSeq(last.pre, 41, 60)
       /\ last.entry.linknode = SubSeq(last.pre, 61, 80)
       /\ IF CopyFromLenAt(last.pre) = 0
          THEN last.entry.copy_from = [tag |-> "None", path |-> <<>>]
          ELSE last.entry.copy_from =
                   [tag |-> "FilePath",
                    path |-> SubSeq(last.pre, 83, 82 + CopyFromLenAt(last.pre))]

\* a File record with a two-byte copy source
C13_Witness ==
    /\ last.op = "history"
    /\ last.kind = "File"
    /\ last.outcome = "Some"
    /\ CopyFromLenAt(last.pre) = 2
    /\ last.entry.p1 # last.entry.p2

----------------------------------------------------------------------------
(* C14 *)

\* C14: for a fully buffered history record decoded with Kind::File and a
\* nonzero copy_from_len, decode returns Ok(Some(entry)) with
\* entry.copy_from a file path when the copy-from bytes form a valid file
\* path, and Err when they do not.
C14_FileCopyFrom ==
    (/\ last.op = "history"
     /\ last.kind = "File"
     /\ Len(last.pre) >= 82
     /\ CopyFromLenAt(last.pre) > 0
     /\ Len(last.pre) >= 82 + CopyFromLenAt(last.pre))
    => IF NoNul(SubSeq(last.pre, 83, 82 + CopyFromLenAt(last.pre)))
       THEN last.outcome = "Some" /\ last.entry.copy_from.tag = "FilePath"
       ELSE last.outcome = "Err"

\* a File record whose copy source is not a path
C14_Witness ==
    /\ last.op = "history"
    /\ last.kind = "File"
    /\ Len(last.pre) >= 84
    /\ CopyFromLenAt(last.pre) = 2
    /\ ~NoNul(SubSeq(last.pre, 83, 84))
    /\ last.outcome = "Err"

----------------------------------------------------------------------------
(* C17 *)

\* C17: for every value of the 64-bit delta_len field the sum
\* 48 + delta_len does not wrap: a header that announces more payload than
\* the buffer holds always yields Ok(None) with the buffer unchanged, and
\* never a panic, consumed bytes or a split past the end of the buffer.
C17_NoWrapAround ==
    (/\ last.op = "data"
     /\ Len(last.pre) >= 48
     /\ \/ ~DeltaLenIsSmall(last.pre)
        \/ Len(last.pre) < 48 + DeltaLenAt(last.pre))
    => /\ last.outcome # "Panic"
       /\ last.outcome = "None"
       /\ Unchanged

----------------------------------------------------------------------------
(* C15 *)

\* C15: verify with Kind::File and a file-path copy_from returns Ok when
\* the path is at most 65535 bytes long and Err when it is 65536 bytes or
\* longer, for entries built by any means.
C15_PathLengthLimit ==
    (/\ last.op \in {"verify", "verify_decoded"}
     /\ last.kind = "File"
     /\ last.entry.copy_from.tag = "FilePath")
    => (last.outcome = "Ok" <=> Len(last.entry.copy_from.path) <= 65535)

\* a hand-built entry whose path is one byte too long
C15_Witness ==
    /\ last.op = "verify"
    /\ last.kind = "File"
    /\ last.entry.copy_from.tag = "FilePath"
    /\ Len(last.entry.copy_from.path) = 65536
    /\ last.outcome = "Err"

----------------------------------------------------------------------------
(* C16 *)

\* C16: every entry HistoryEntry::decode(buf, kind) returns as Ok(Some)
\* passes entry.verify(kind), for both kinds and every buffer content: its
\* copy_from is absent, or a file path of at most 65535 bytes decoded
\* under Kind::File.
C16_DecodeImpliesValid ==
    last.op = "verify_decoded"
    => /\ last.outcome = "Ok"
       /\ \/ last.entry.copy_from.tag = "None"
          \/ /\ last.entry.copy_from.tag = "FilePath"
             /\ Len(last.entry.copy_from.path) <= 65535
             /\ last.kind = "File"

\* a decoded entry with a copy source passes
C16_Witness ==
    /\ last.op = "verify_decoded"
    /\ last.entry.copy_from.tag = "FilePath"
    /\ last.outcome = "Ok"

----------------------------------------------------------------------------
(* C11 *)

\* every record of the wire is a valid record
AllValid == \A i \in 1..Len(frames) : ValidRecord(frames[i])

\* C11: on a wire of k complete valid records (and whatever part of the
\* next one has arrived), the calls return the records' entries in wire
\* order, each call consuming exactly one record: the call made after n
\* entries were returned starts at the (n+1)-th record, returns its entry
\* and leaves exactly the bytes behind it, or, when that record is not
\* complete, answers Ok(None) and leaves exactly its partial bytes.
C11_OneRecordPerCall ==
    (last.op \in {"history", "data"} /\ AllValid)
    => LET rest == SubSeq(frames, last.returned + 1, Len(frames))
       IN  /\ last.returned <= Len(frames)
           /\ last.pre \o pending = Wire(rest)
           /\ IF rest # <<>> /\ Len(last.pre) >= Len(FrameBytes(rest[1]))
              THEN /\ last.outcome = "Some"
                   /\ last.entry = SentEntry(rest[1])
                   /\ last.post = After(last.pre, Len(FrameBytes(rest[1])))
                   /\ buf = last.post
              ELSE last.outcome = "None" /\ Unchanged

\* two different records were returned, the third call finds a partial one
C11_Witness ==
    /\ last.op \in {"history", "data"}
    /\ AllValid
    /\ Len(frames) = 3
    /\ frames[1] # frames[2]
    /\ last.returned = 2
    /\ last.pre # <<>>
    /\ last.outcome = "None"

----------------------------------------------------------------------------
(* C12 *)

\* x is what y ends with
IsSuffix(x, y) ==
    Len(x) <= Len(y) /\ SubSeq(y, Len(y) - Len(x) + 1, Len(y)) = x

\* two buffers hold, and agree on, their first n bytes
AgreeOn(a, b, n) ==
    Len(a) >= n /\ Len(b) >= n /\ SubSeq(a, 1, n) = SubSeq(b, 1, n)

\* the outcome and the entry are the same for both buffers, and the bytes
\* after the first n are still in each buffer, at its end
SameAndUntouched(n) ==
    /\ last.twin.outcome = last.outcome
    /\ last.twin.entry = last.entry
    /\ IsSuffix(After(last.pre, n), last.post)
    /\ IsSuffix(After(last.twin.pre, n), last.twin.post)

====
